---------------------------- MODULE Spec2Model ----------------------------
(***************************************************************************)
(* State-machine model of src/streamlit_dashboard.py: the session state of *)
(* the voice-recognition dashboard (VoiceRecognitionSystem plus the        *)
(* st.session_state entries) and one action per button handler.            *)
(*                                                                         *)
(* Confidences and the threshold are floats in the source; here they are   *)
(* integers counting hundredths (0.94 is 94).  A random draw is an         *)
(* existential choice over DrawSamples evenly spaced points of the         *)
(* interval the source draws from, both ends included.  The wall clock is  *)
(* read in whole minutes of the day.  The "time" field orders the demo     *)
(* history and is then dropped: with "date", "registered", "calls_today"   *)
(* and "profile_strength" it is display-only afterwards (no handler reads  *)
(* it).  A handler that waits (time.sleep between st.* calls) can be       *)
(* stopped by the next widget event at the st.* call that follows the      *)
(* wait; what it did not reach is not done.                                *)
(***************************************************************************)
EXTENDS Integers, Sequences, FiniteSets

VARIABLES
    known_voices,   \* voice_system.known_voices: insertion-ordered dict, as a sequence of [name, confidence]
    threshold,      \* voice_system.threshold, in hundredths
    call_history,   \* voice_system.call_history: list of [caller, status, confidence], newest first
    monitoring,     \* st.session_state.monitoring
    demo_counter,   \* st.session_state.demo_counter
    last,           \* the handler that ran last and the message it showed: [op, msg]
    script_runs,    \* how many times a widget interaction has re-run the script
    \* the monitoring pipeline of spec.md 4.4 (no code under src/)
    worker_state,   \* "Idle" or "Running"
    input_queue,    \* chunks delivered by the capture source and not yet taken, oldest first
    window,         \* the sliding window: the chunks it holds, oldest first
    chunks_captured,\* chunks the capture source has delivered
    chunks_pushed,  \* chunks the worker has pushed into the window
    analyses,       \* completed analysis cycles
    skipped,        \* iterations that were load-shed
    session_stats   \* SessionStats: [total_calls, authorized_calls, blocked_calls]

dvars == <<known_voices, threshold, call_history, monitoring, demo_counter, last,
           script_runs>>

wvars == <<worker_state, input_queue, window, chunks_captured, chunks_pushed,
           analyses, skipped, session_stats>>

vars == <<dvars, wvars>>

----------------------------------------------------------------------------
(* Bounds of the exploration *)

\* number of widget interactions (script re-runs) explored in one session
MaxRuns == 3
\* number of sampled new sessions: pairs of an outcome of the 12 random.choice
\* draws of generate_demo_history and a wall-clock time of the session's creation
SessionSamples == 2
\* number of sampled points of an interval a random draw ranges over (at least 2)
DrawSamples == 2
\* number of 'Simulate Call' presses explored in a session that presses nothing else
MaxCalls == 9
\* number of entries of caller_types that session draws its callers from
CallerSamples == 2
\* chunks the capture source delivers in one run of the pipeline
MaxChunks == 4
\* chunks the input queue holds at most
MaxQueue == 3

(* Program constants, in hundredths where they are confidences *)

InitialThreshold == 75
SliderMin == 50
SliderMax == 95
SliderStep == 5
DemoHistoryLen == 12
CallJitter == 5
BlockedLow == 5
BlockedHigh == 35
RegisterBase == 85
RegisterSpread == 10

----------------------------------------------------------------------------
(* Python dict, insertion-ordered *)

Keys(d) == {d[i].name : i \in 1..Len(d)}

Contains(d, k) == \E i \in 1..Len(d) : d[i].name = k

\* d[k]["confidence"] for a key that is present
Confidence(d, k) ==
    LET i == CHOOSE j \in 1..Len(d) :
                 d[j].name = k /\ \A m \in 1..(j - 1) : d[m].name # k
    IN  d[i].confidence

\* DictSet with the key lookup lost: every assignment adds an entry
DictSet_AppendAlways(d, k, v) == Append(d, [name |-> k, confidence |-> v])

\* DictSet that rebinds the dict to one holding the new entry alone
DictSet_Overwrite(d, k, v) == <<[name |-> k, confidence |-> v]>>

\* d[k] = v: an existing key keeps its place and gets the new value, a new key goes last
DictSet(d, k, v) ==
    IF Contains(d, k)
    THEN LET i == CHOOSE j \in 1..Len(d) : d[j].name = k
         IN  [d EXCEPT ![i] = [name |-> k, confidence |-> v]]
    ELSE Append(d, [name |-> k, confidence |-> v])

\* how many entries d holds under the key k
CountName(d, k) == Cardinality({i \in 1..Len(d) : d[i].name = k})

\* random.uniform(lo, hi): DrawSamples evenly spaced points of [lo, hi], the two
\* ends among them; every hundredth of the interval once DrawSamples > hi - lo
Uniform(lo, hi) ==
    {lo + ((hi - lo) * k) \div (DrawSamples - 1) : k \in 0..(DrawSamples - 1)}

----------------------------------------------------------------------------
(* VoiceRecognitionSystem *)

load_demo_voices ==
    << [name |-> "Mom",         confidence |-> 94],
       [name |-> "Dad",         confidence |-> 89],
       [name |-> "Sister",      confidence |-> 92],
       [name |-> "Best Friend", confidence |-> 87] >>

call_types ==
    << [caller |-> "Mom",          status |-> "Authorized", confidence |-> 94],
       [caller |-> "Unknown",      status |-> "Blocked",    confidence |-> 23],
       [caller |-> "Dad",          status |-> "Authorized", confidence |-> 89],
       [caller |-> "Telemarketer", status |-> "Blocked",    confidence |-> 15],
       [caller |-> "Sister",       status |-> "Authorized", confidence |-> 92],
       [caller |-> "Robocaller",   status |-> "Blocked",    confidence |-> 8],
       [caller |-> "Best Friend",  status |-> "Authorized", confidence |-> 87],
       [caller |-> "Scammer",      status |-> "Blocked",    confidence |-> 12] >>

\* the i-th digit (from the right, starting at 0) of n written in base b
RECURSIVE Digit(_, _, _)
Digit(n, b, i) == IF i = 0 THEN n % b ELSE Digit(n \div b, b, i - 1)

\* the i-th random.choice(call_types) of the outcome `seed`: the draws are
\* independent, and the outcomes are numbered so that outcome 0 takes the rows in
\* turn and the base-8 digits of `seed` shift each draw on its own; the seeds
\* 0 .. 8^12 - 1 give each of the 8^12 sequences of draws once
DemoChoice(seed, i) == ((i + Digit(seed, Len(call_types), i)) % Len(call_types)) + 1

MinutesPerDay == 24 * 60

\* the k-th sampled wall-clock time of a session's creation, in minutes of the day:
\* 12:00, 02:11, 16:22, ...; the step is prime to MinutesPerDay, so the samples
\* run through every minute of the day
SessionClock(k) == (12 * 60 + k * (14 * 60 + 11)) % MinutesPerDay

\* the s-th sampled new session, <<seed, k>>: the pairs of an outcome of the draws
\* and a sampled clock, counted diagonal by diagonal (<<0, 0>>, <<0, 1>>, <<1, 0>>,
\* <<0, 2>>, ...), so that the samples run through every pair
SessionSample(s) ==
    LET d == CHOOSE n \in 0..s :
                 /\ (n * (n + 1)) \div 2 <= s
                 /\ s < ((n + 1) * (n + 2)) \div 2
        seed == s - (d * (d + 1)) \div 2
    IN  <<seed, d - seed>>

\* datetime.now() - timedelta(hours=i*0.5), in minutes of the day
CallTime(clock, i) == (clock - 30 * i) % MinutesPerDay

\* strftime("%H:%M"): two digits of the hour, the colon, two digits of the minute
TimeString(t) ==
    << (t \div 60) \div 10, (t \div 60) % 10, ":", (t % 60) \div 10, (t % 60) % 10 >>

\* a > b for two "%H:%M" strings: the first position where they differ decides
\* (position 3 holds the colon in both)
StringGreater(a, b) ==
    \E p \in {1, 2, 4, 5} :
        /\ a[p] > b[p]
        /\ \A q \in {1, 2, 4, 5} : q < p => a[q] = b[q]

\* sorted(history, key=lambda x: x["time"], reverse=True): by descending key;
\* the sort is stable, so equal keys keep the order they had
SortedByTimeDesc(history) ==
    LET before(i, j) ==
            \/ StringGreater(history[i].time, history[j].time)
            \/ history[i].time = history[j].time /\ i < j
        rank(i) == 1 + Cardinality({j \in 1..Len(history) : before(j, i)})
    IN  [r \in 1..Len(history) |->
            history[CHOOSE i \in 1..Len(history) : rank(i) = r]]

\* generate_demo_history: 12 independent draws from call_types, the i-th stamped
\* half an hour before the one before it, sorted by the "time" string, newest
\* first unless the twelve cross midnight.  `seed` is the outcome of the draws,
\* `clock` the time of the session's creation.
generate_demo_history(seed, clock) ==
    LET history ==
            [i \in 1..DemoHistoryLen |->
                [call |-> call_types[DemoChoice(seed, i - 1)],
                 time |-> TimeString(CallTime(clock, i - 1))]]
        sorted == SortedByTimeDesc(history)
    IN  [i \in 1..DemoHistoryLen |-> sorted[i].call]

CountAuthorized(h) ==
    Cardinality({i \in 1..Len(h) : h[i].status = "Authorized"})

get_stats(h) ==
    LET total_calls == Len(h)
        authorized  == CountAuthorized(h)
    IN  [total_calls |-> total_calls,
         authorized  |-> authorized,
         blocked     |-> total_calls - authorized]

----------------------------------------------------------------------------
(* Inputs *)

caller_types == <<"Mom", "Unknown Scammer", "Dad", "Telemarketer", "Sister">>

\* text typed into "Full Name": empty, a built-in name, a name 'Simulate Call' draws
NameInputs == {"", "Mom", "Telemarketer"}

\* st.slider(min_value=0.5, max_value=0.95, step=0.05)
SliderValues ==
    {SliderMin + k * SliderStep : k \in 0..((SliderMax - SliderMin) \div SliderStep)}

Message(op, msg) == [op |-> op, msg |-> msg]

\* the sliding window holds WindowChunks chunks; 0 stands for the zero padding
WindowChunks == 2
EmptyWindow == [i \in 1..WindowChunks |-> 0]

\* push: drop the oldest chunk, append the new one; the length stays WindowChunks
Push(w, chunk) == Append(Tail(w), chunk)

----------------------------------------------------------------------------
Init ==
    /\ known_voices = load_demo_voices
    /\ threshold = InitialThreshold
    /\ \E s \in 0..(SessionSamples - 1) :
           LET seed  == SessionSample(s)[1]
               clock == SessionClock(SessionSample(s)[2])
           IN  call_history = generate_demo_history(seed, clock)
    /\ monitoring = FALSE
    /\ demo_counter = 0
    /\ last = Message("init", "none")
    /\ script_runs = 0
    /\ worker_state = "Idle"
    /\ input_queue = <<>>
    /\ window = EmptyWindow
    /\ chunks_captured = 0
    /\ chunks_pushed = 0
    /\ analyses = 0
    /\ skipped = 0
    /\ session_stats = [total_calls |-> 0, authorized_calls |-> 0, blocked_calls |-> 0]

\* a button press re-runs the script once; the session is explored for MaxRuns presses
Rerun ==
    /\ script_runs < MaxRuns
    /\ script_runs' = script_runs + 1

\* Start/Stop Monitoring: one button whose label depends on the state; the handler
\* negates the flag
ToggleMonitoring ==
    /\ Rerun
    /\ monitoring' = ~monitoring
    /\ last' = Message(IF monitoring THEN "stop" ELSE "start", "none")
    /\ UNCHANGED <<known_voices, threshold, call_history, demo_counter>>
    /\ UNCHANGED wvars

\* NewCall with a third status string for callers that are not enrolled
NewCall_StatusTypo(new_caller, r) ==
    IF Contains(known_voices, new_caller)
    THEN [caller     |-> new_caller,
          status     |-> "Authorized",
          confidence |-> Confidence(known_voices, new_caller) + r]
    ELSE [caller     |-> new_caller,
          status     |-> "Block",
          confidence |-> r]

\* NewCall with the draw applied twice as wide as drawn
NewCall_WideJitter(new_caller, r) ==
    IF Contains(known_voices, new_caller)
    THEN [caller     |-> new_caller,
          status     |-> "Authorized",
          confidence |-> Confidence(known_voices, new_caller) + 2 * r]
    ELSE [caller     |-> new_caller,
          status     |-> "Blocked",
          confidence |-> r]

\* the event 'Simulate Call' builds for new_caller and the draw `r`
NewCall(new_caller, r) ==
    IF Contains(known_voices, new_caller)
    THEN [caller     |-> new_caller,
          status     |-> "Authorized",
          confidence |-> Confidence(known_voices, new_caller) + r]
    ELSE [caller     |-> new_caller,
          status     |-> "Blocked",
          confidence |-> r]

\* InsertCall that keeps only the most recent DemoHistoryLen events
InsertCall_Capped(h, new_call) == SubSeq(<<new_call>> \o h, 1, DemoHistoryLen)

\* InsertCall that appends at the end of the list
InsertCall_Append(h, new_call) == Append(h, new_call)

\* call_history.insert(0, new_call)
InsertCall(h, new_call) == <<new_call>> \o h

SimulateCall ==
    /\ Rerun
    /\ last' = Message("simulate", "success")
    /\ \E c \in 1..Len(caller_types) :
         LET new_caller == caller_types[c]
         IN  \E r \in (IF Contains(known_voices, new_caller)
                       THEN Uniform(-CallJitter, CallJitter)
                       ELSE Uniform(BlockedLow, BlockedHigh)) :
                call_history' = InsertCall(call_history, NewCall(new_caller, r))
    /\ UNCHANGED <<known_voices, threshold, monitoring, demo_counter>>
    /\ UNCHANGED wvars

\* RegisterVoice that tests the name only
RegisterVoice_NameOnly(name, audio_file, conf, stopped_at) ==
    /\ Rerun
    /\ IF name # ""
       THEN IF stopped_at = "progress"
            THEN /\ last' = Message("register", "none")
                 /\ known_voices' = known_voices
            ELSE /\ last' = Message("register",
                                    IF stopped_at = "success" THEN "none" ELSE "success")
                 /\ known_voices' = DictSet(known_voices, name, conf)
       ELSE /\ last' = Message("register", "warning")
            /\ known_voices' = known_voices
    /\ UNCHANGED <<threshold, call_history, monitoring, demo_counter>>
    /\ UNCHANGED wvars

\* where a run of the Register handler with a name and a file ends: stopped by a
\* widget event at a progress_bar.progress call of the loop (before the write),
\* stopped at st.success (the first st.* call after the last time.sleep and the
\* write), or not stopped
RegisterStops == {"progress", "success", "end"}

\* Register Voice Profile: name is the text input, audio_file whether a file was
\* uploaded.  With both, the handler plays its progress bar (100 steps of
\* progress_bar.progress and time.sleep), then writes the store, then shows the
\* success message.  A run stopped in the loop writes nothing and shows nothing; a
\* run stopped at st.success has written the store and shows nothing.
RegisterVoice(name, audio_file, conf, stopped_at) ==
    /\ Rerun
    /\ IF name # "" /\ audio_file
       THEN IF stopped_at = "progress"
            THEN /\ last' = Message("register", "none")
                 /\ known_voices' = known_voices
            ELSE /\ last' = Message("register",
                                    IF stopped_at = "success" THEN "none" ELSE "success")
                 /\ known_voices' = DictSet(known_voices, name, conf)
       ELSE /\ last' = Message("register", "warning")
            /\ known_voices' = known_voices
    /\ UNCHANGED <<threshold, call_history, monitoring, demo_counter>>
    /\ UNCHANGED wvars

\* Update Settings: new_threshold is the slider's value when the button is pressed
UpdateSettings(new_threshold) ==
    /\ Rerun
    /\ threshold' = new_threshold
    /\ last' = Message("settings", "success")
    /\ UNCHANGED <<known_voices, call_history, monitoring, demo_counter>>
    /\ UNCHANGED wvars

\* MoveSlider that stores the slider's value at once
MoveSlider_Applies(new_threshold) ==
    /\ Rerun
    /\ threshold' = new_threshold
    /\ last' = Message("slider", "none")
    /\ UNCHANGED <<known_voices, call_history, monitoring, demo_counter>>
    /\ UNCHANGED wvars

\* the threshold slider moved without pressing Update Settings: the script re-runs,
\* new_threshold is a local of that run and nothing is stored
MoveSlider(new_threshold) ==
    /\ Rerun
    /\ last' = Message("slider", "none")
    /\ UNCHANGED <<known_voices, threshold, call_history, monitoring, demo_counter>>
    /\ UNCHANGED wvars

\* Analyze Voice (Test Recognition): shows a result, stores nothing.  With a file
\* the result comes after the progress loop (100 steps of progress and time.sleep);
\* `completed` is whether the run got that far or was stopped in the loop.
AnalyzeVoice(test_audio, is_known, completed) ==
    /\ Rerun
    /\ last' = Message("analyze",
                       IF ~test_audio THEN "warning"
                       ELSE IF ~completed THEN "none"
                       ELSE IF is_known THEN "match" ELSE "unknown")
    /\ UNCHANGED <<known_voices, threshold, call_history, monitoring, demo_counter>>
    /\ UNCHANGED wvars

\* Educational Demo: Simulate Family Call
SimulateFamilyCall(family_member) ==
    /\ Rerun
    /\ last' = Message("family",
                       IF Contains(known_voices, family_member) THEN "success" ELSE "none")
    /\ UNCHANGED <<known_voices, threshold, call_history, monitoring, demo_counter>>
    /\ UNCHANGED wvars

\* Educational Demo: Simulate Scam Call
SimulateScamCall ==
    /\ Rerun
    /\ last' = Message("scam", "error")
    /\ UNCHANGED <<known_voices, threshold, call_history, monitoring, demo_counter>>
    /\ UNCHANGED wvars

\* the msg_type of the four steps of the Full Demo Sequence
demo_sequence == <<"success", "error", "success", "error">>

\* Educational Demo: Full Demo Sequence.  The counter is incremented first; then
\* each step writes a line, sleeps, shows its result box and sleeps.  `shown` is
\* the number of result boxes shown when the run ended: all four, or fewer when a
\* widget event stopped the run on the way.
FullDemoSequence(shown) ==
    /\ Rerun
    /\ demo_counter' = demo_counter + 1
    /\ last' = Message("demo", IF shown = 0 THEN "none" ELSE demo_sequence[shown])
    /\ UNCHANGED <<known_voices, threshold, call_history, monitoring>>
    /\ UNCHANGED wvars

Next ==
    \/ ToggleMonitoring
    \/ SimulateCall
    \/ \E name \in NameInputs, audio_file \in BOOLEAN,
          conf \in Uniform(RegisterBase, RegisterBase + RegisterSpread),
          stopped_at \in RegisterStops :
            RegisterVoice(name, audio_file, conf, stopped_at)
    \/ \E new_threshold \in SliderValues : UpdateSettings(new_threshold)
    \/ \E new_threshold \in SliderValues : MoveSlider(new_threshold)
    \/ \E test_audio \in BOOLEAN, is_known \in BOOLEAN, completed \in BOOLEAN :
            AnalyzeVoice(test_audio, is_known, completed)
    \/ \E family_member \in {"Mom", "Dad", "Sister"} : SimulateFamilyCall(family_member)
    \/ SimulateScamCall
    \/ \E shown \in 0..Len(demo_sequence) : FullDemoSequence(shown)

Spec == Init /\ [][Next]_vars

----------------------------------------------------------------------------
(* A long session on the Live Monitoring page *)

\* the callers random.choice(caller_types) is sampled at in the long session: the
\* first CallerSamples entries of caller_types
LongSessionCallers == {caller_types[c] : c \in 1..CallerSamples}

\* Simulate Call pressed again and again: the same handler, explored for MaxCalls
\* presses
SimulateCallAgain ==
    /\ Len(call_history) < DemoHistoryLen + MaxCalls
    /\ script_runs' = script_runs + 1
    /\ last' = Message("simulate", "success")
    /\ \E new_caller \in LongSessionCallers :
         \E r \in (IF Contains(known_voices, new_caller)
                   THEN Uniform(-CallJitter, CallJitter)
                   ELSE Uniform(BlockedLow, BlockedHigh)) :
            call_history' = InsertCall(call_history, NewCall(new_caller, r))
    /\ UNCHANGED <<known_voices, threshold, monitoring, demo_counter>>
    /\ UNCHANGED wvars

NextLongSession == SimulateCallAgain

SpecLongSession == Init /\ [][NextLongSession]_vars

----------------------------------------------------------------------------
(* The monitoring worker of spec.md 4.4 *)

\* Idle -> Running needs an enrolled reference; on success the window is reset
WorkerStart ==
    /\ worker_state = "Idle"
    /\ IF Len(known_voices) = 0
       THEN UNCHANGED <<worker_state, window>>
       ELSE worker_state' = "Running" /\ window' = EmptyWindow
    /\ UNCHANGED <<input_queue, chunks_captured, chunks_pushed, analyses, skipped,
                   session_stats>>
    /\ UNCHANGED dvars

\* Running -> Idle; a no-op when already Idle
WorkerStop ==
    /\ worker_state' = "Idle"
    /\ UNCHANGED <<input_queue, window, chunks_captured, chunks_pushed, analyses,
                   skipped, session_stats>>
    /\ UNCHANGED dvars

\* the capture source enqueues a chunk and returns; it does not wait for the worker
CaptureChunk ==
    /\ chunks_captured < MaxChunks
    /\ Len(input_queue) < MaxQueue
    /\ chunks_captured' = chunks_captured + 1
    /\ input_queue' = Append(input_queue, chunks_captured + 1)
    /\ UNCHANGED <<worker_state, window, chunks_pushed, analyses, skipped, session_stats>>
    /\ UNCHANGED dvars

\* SessionStats after one completed analysis with the given decision
CountDecision(stats, status) ==
    [total_calls      |-> stats.total_calls + 1,
     authorized_calls |-> stats.authorized_calls + (IF status = "Authorized" THEN 1 ELSE 0),
     blocked_calls    |-> stats.blocked_calls + (IF status = "Blocked" THEN 1 ELSE 0)]

\* ShedLoad that never sheds: every iteration analyses
ShedLoad_Never(queue_after_push) == FALSE

\* the load-shedding test: more chunks are buffered right after the push
ShedLoad(queue_after_push) == queue_after_push # <<>>

\* one iteration of the processing loop that received a chunk: push it, then either
\* skip (load-shedding), fail in the extractor (logged, skipped), or analyse and count
WorkerIterate ==
    /\ worker_state = "Running"
    /\ input_queue # <<>>
    /\ input_queue' = Tail(input_queue)
    /\ window' = Push(window, Head(input_queue))
    /\ chunks_pushed' = chunks_pushed + 1
    /\ IF ShedLoad(Tail(input_queue))
       THEN /\ skipped' = skipped + 1
            /\ UNCHANGED <<analyses, session_stats>>
       ELSE \E extracted \in BOOLEAN, status \in {"Authorized", "Blocked"} :
              IF extracted
              THEN /\ analyses' = analyses + 1
                   /\ session_stats' = CountDecision(session_stats, status)
                   /\ UNCHANGED skipped
              ELSE UNCHANGED <<analyses, session_stats, skipped>>
    /\ UNCHANGED <<worker_state, chunks_captured>>
    /\ UNCHANGED dvars

NextWorker ==
    \/ WorkerStart
    \/ WorkerStop
    \/ CaptureChunk
    \/ WorkerIterate

SpecWorker == Init /\ [][NextWorker]_vars

----------------------------------------------------------------------------
(* Properties *)

\* a step that records a call event: the history gets one entry longer
RecordsCall == Len(call_history') = Len(call_history) + 1

CountStatus(h, status) == Cardinality({i \in 1..Len(h) : h[i].status = status})

\* C1 (as claimed): every event a 'Simulate Call' decision records is Authorized
\* exactly when its confidence is at least the threshold in force at that moment.
C1_AuthorizedIffAtLeastThreshold ==
    [][RecordsCall =>
         LET e == Head(call_history')
         IN  (e.status = "Authorized") <=> (e.confidence >= threshold)]_vars

\* C2 (as claimed): every event in the history is Authorized with an enrolled caller
\* or Blocked with the caller "Unknown".  Names are never removed from the store, so
\* a caller enrolled when its event was created is enrolled in every later state.
C2_BlockedCallerIsUnknown ==
    \A i \in 1..Len(call_history) :
        \/ /\ call_history[i].status = "Authorized"
           /\ call_history[i].caller \in Keys(known_voices)
        \/ /\ call_history[i].status = "Blocked"
           /\ call_history[i].caller = "Unknown"

\* C5: get_stats reports total_calls = authorized + blocked, authorized and blocked
\* are the numbers of Authorized and of Blocked events, and a step that records a
\* call adds one to total_calls and one to exactly one of authorized and blocked.
C5_StatsCountEvents ==
    /\ [](LET s == get_stats(call_history)
          IN  /\ s.total_calls = s.authorized + s.blocked
              /\ s.authorized = CountStatus(call_history, "Authorized")
              /\ s.blocked = CountStatus(call_history, "Blocked"))
    /\ [][RecordsCall =>
            LET s == get_stats(call_history)
                t == get_stats(call_history')
            IN  /\ t.total_calls = s.total_calls + 1
                /\ \/ t.authorized = s.authorized + 1 /\ t.blocked = s.blocked
                   \/ t.authorized = s.authorized /\ t.blocked = s.blocked + 1]_vars

\* C5 witness: two calls were recorded, one Authorized and one Blocked.
C5_Witness ==
    /\ Len(call_history) = DemoHistoryLen + 2
    /\ call_history[1].status = "Authorized"
    /\ call_history[2].status = "Blocked"

\* C6: no step of any handler lowers total_calls, authorized or blocked.
C6_CountersMonotonic ==
    [][LET s == get_stats(call_history)
           t == get_stats(call_history')
       IN  /\ t.total_calls >= s.total_calls
           /\ t.authorized >= s.authorized
           /\ t.blocked >= s.blocked]_vars

\* C6 witness: calls of both kinds were recorded and another handler ran afterwards.
C6_Witness ==
    /\ Len(call_history) = DemoHistoryLen + 2
    /\ call_history[1].status # call_history[2].status
    /\ last.op \notin {"init", "simulate"}

\* C7 (as claimed): while monitoring is Idle no step adds an event or changes the
\* statistics.
C7_IdleRecordsNothing ==
    [][~monitoring =>
         /\ call_history' = call_history
         /\ get_stats(call_history') = get_stats(call_history)]_vars

\* C8: the store never holds two entries for one name, and an enrollment of a
\* name that gets as far as its write (whether or not the success message is still
\* shown) sets that name's entry to the newly drawn value, adds the name if it was
\* absent and leaves every other entry as it was.
C8_EnrollReplaces ==
    /\ [](Cardinality(Keys(known_voices)) = Len(known_voices))
    /\ [][last'.op = "register" =>
             \A name \in NameInputs \ {""},
                conf \in Uniform(RegisterBase, RegisterBase + RegisterSpread),
                stopped_at \in RegisterStops \ {"progress"} :
                RegisterVoice(name, TRUE, conf, stopped_at) =>
                   /\ Keys(known_voices') = Keys(known_voices) \cup {name}
                   /\ CountName(known_voices', name) = 1
                   /\ Confidence(known_voices', name) = conf
                   /\ \A k \in Keys(known_voices) \ {name} :
                          Confidence(known_voices', k) = Confidence(known_voices, k)]_vars

\* C8 witness: the built-in "Mom" was enrolled again and a new name was enrolled;
\* the store holds five entries and Mom's value is the new one.
C8_Witness ==
    /\ last = Message("register", "success")
    /\ Len(known_voices) = Len(load_demo_voices) + 1
    /\ Confidence(known_voices, "Mom") # Confidence(load_demo_voices, "Mom")
    /\ Contains(known_voices, "Telemarketer")

\* C9: a registration submitted without a name or without a voice sample leaves
\* the store as it was and shows a warning, not a success (that branch reaches
\* neither the progress loop nor the draw, so the step is the same for every value
\* of the two); and whenever a press of the Register button ends in the warning,
\* the store is as it was.
C9_FailedEnrollKeepsStore ==
    /\ [][\A name \in NameInputs, audio_file \in BOOLEAN :
             ((name = "" \/ ~audio_file)
                 /\ RegisterVoice(name, audio_file, RegisterBase, "end")) =>
                /\ known_voices' = known_voices
                /\ last' = Message("register", "warning")]_vars
    /\ [][(last' = Message("register", "warning")
             /\ script_runs' = script_runs + 1) =>
                known_voices' = known_voices]_vars

\* C9 witness: a registration failed after names had been enrolled, and the earlier
\* entries are still there.
C9_Witness ==
    /\ last = Message("register", "warning")
    /\ Contains(known_voices, "Telemarketer")
    /\ Confidence(known_voices, "Mom") # Confidence(load_demo_voices, "Mom")

\* C10: an iteration that finds the queue non-empty after its push performs no
\* analysis and does not touch the statistics; total_calls counts exactly the
\* completed analyses; once an iteration was load-shed, fewer analyses have
\* completed than chunks were pushed.
C10_LoadShedding ==
    /\ [](/\ session_stats.total_calls = analyses
          /\ analyses + skipped <= chunks_pushed
          /\ (skipped > 0 => analyses < chunks_pushed))
    /\ [][(chunks_pushed' = chunks_pushed + 1 /\ input_queue' # <<>>) =>
            /\ analyses' = analyses
            /\ session_stats' = session_stats
            /\ skipped' = skipped + 1]_vars

\* C10 witness: a burst was load-shed and analyses completed as well.
C10_Witness ==
    /\ skipped >= 2
    /\ analyses >= 1
    /\ analyses < chunks_pushed
    /\ session_stats.total_calls = analyses

\* the bound of the call history the specification gives as its example: 20 events
HistoryBound == DemoHistoryLen + 8

\* C11 (as claimed): after any number of call events the call history holds at
\* most the HistoryBound most recent ones.
C11_HistoryBounded == Len(call_history) <= HistoryBound

\* C12: every event in the call history has a confidence between 0 and 1 (0 and
\* 100 hundredths), whatever profiles the store holds.
C12_ConfidenceInUnitInterval ==
    \A i \in 1..Len(call_history) :
        /\ call_history[i].confidence >= 0
        /\ call_history[i].confidence <= 100

\* C12 witness: a profile registered at the top of its range (0.85 + 0.10) was
\* called with the top draw (+0.05): the event's confidence is exactly 1.
C12_Witness ==
    /\ Len(call_history) > DemoHistoryLen
    /\ call_history[1].caller = "Telemarketer"
    /\ call_history[1].status = "Authorized"
    /\ call_history[1].confidence = RegisterBase + RegisterSpread + CallJitter
    /\ call_history[1].confidence = 100

\* C13: the threshold is always the initial 0.75 or a slider value (0.50 to 0.95 in
\* steps of 0.05), and the only step that changes it is Update Settings: moving
\* the slider alone, and every other handler, leaves it as it was.
C13_ThresholdOnlyBySettings ==
    /\ [](threshold \in {InitialThreshold} \cup SliderValues)
    /\ [](SliderValues = {50, 55, 60, 65, 70, 75, 80, 85, 90, 95})
    /\ [][threshold' # threshold => last' = Message("settings", "success")]_vars
    /\ [][\A v \in SliderValues : MoveSlider(v) => threshold' = threshold]_vars

\* C13 witness: the threshold was set to 0.95 by Update Settings, then the slider
\* was moved without confirming, and the threshold is still 0.95.
C13_Witness ==
    /\ threshold = SliderMax
    /\ threshold # InitialThreshold
    /\ last = Message("slider", "none")

\* C14: no step removes a name from known_voices, so the four built-in profiles
\* (Mom, Dad, Sister, Best Friend) are enrolled in every state and the store is
\* never empty.
C14_StoreOnlyGrows ==
    /\ [](/\ {"Mom", "Dad", "Sister", "Best Friend"} \subseteq Keys(known_voices)
          /\ Len(known_voices) >= 4)
    /\ [][/\ Keys(known_voices) \subseteq Keys(known_voices')
          /\ Len(known_voices') >= Len(known_voices)]_vars

\* C14 witness: a built-in profile was enrolled again, a new name was enrolled and
\* another handler ran; the store holds five names, the four built-in ones among them.
C14_Witness ==
    /\ Keys(known_voices) = Keys(load_demo_voices) \cup {"Telemarketer"}
    /\ known_voices[1].name = "Mom"
    /\ known_voices[1].confidence # load_demo_voices[1].confidence
    /\ known_voices[Len(known_voices)].name = "Telemarketer"
    /\ last.op # "register"

\* C15: Simulate Call puts exactly one event in front of the call history and
\* leaves the monitoring state, the store and the threshold as they were; the
\* Start/Stop button flips the monitoring state and leaves the call history, the
\* store and the threshold as they were.
C15_MonitoringPageFrames ==
    /\ [][SimulateCall =>
            /\ Len(call_history') = Len(call_history) + 1
            /\ Tail(call_history') = call_history
            /\ monitoring' = monitoring
            /\ known_voices' = known_voices
            /\ threshold' = threshold]_vars
    /\ [][ToggleMonitoring =>
            /\ monitoring' # monitoring
            /\ call_history' = call_history
            /\ known_voices' = known_voices
            /\ threshold' = threshold]_vars

\* C15 witness: with a changed threshold, monitoring was started and a
\* call was simulated; the state is Running and the new event heads the history.
C15_Witness ==
    /\ last = Message("simulate", "success")
    /\ monitoring
    /\ Len(call_history) = DemoHistoryLen + 1
    /\ threshold # InitialThreshold

=============================================================================
